---- MODULE Spec2Model ----
(***************************************************************************)
(* bugSignal: the listener scheduling and delivery engine.                 *)
(*                                                                         *)
(* Spec    the service (src/service.py): the job queue, the actualizer     *)
(*         pass, the listener-check callback, the force-check command and  *)
(*         the shutdown job.  A driver's check() is a choice of outcome.   *)
(* SpecFS  one FileSystemListener (src/listener.py) over a changing file   *)
(*         system: its constructor, check() item by item, and the rebuild  *)
(*         of the instance by a pass (construct, then inherit).            *)
(* SpecCron   start-up (app.py) for a configured timezone, then one         *)
(*         CronSchedule read at arbitrary instants.                        *)
(* SpecSend   one dispatch: a __send_messages task per recipient, the      *)
(*         split of a message into parts and the retry loop of a part.     *)
(* SpecRetry  one such task on its own, under a fair event loop.           *)
(* SpecSQL    one SQLListener over a growing table of messages.            *)
(*                                                                         *)
(* Reading of the source.  service.py names the listener's identifier      *)
(* `listener.id` and hands `listener.next_t` to run_once(when=...);        *)
(* listener.py names the field `identifier` and returns the pair           *)
(* (expired, when) from next_t.  The model reads `listener.id` as the      *)
(* identifier and schedules the job at the `when` of the pair; the pair    *)
(* is never falsy.  JobName, JobData and MISFIRE_GRACE are imported from   *)
(* model.py, which does not define them: the three job names are taken     *)
(* as three distinct strings.  The handler of a failed construction logs   *)
(* `row.name`, where the table's column is `title`: read as the title.     *)
(*                                                                         *)
(* Time is a natural number; one unit stands for one retry interval, and  *)
(* the other delays and periods keep their order, not their ratio.  The    *)
(* commands and table edits of a behaviour are counted down from MaxOps.   *)
(***************************************************************************)
EXTENDS Integers, Sequences, FiniteSets, Bags, TLC

\* ------------------------------------------------------------------ bounds
MaxTime == 3
MaxOps == 2

\* ------------------------------------------------- configuration (defaults.py)
RetryInterval == 1
CloseDelay == 1
CommonTimeout == 2
ActualizerPeriod == 3
ListenerPeriod == 2

Ids == {1, 2}
Kinds == {"FileSystemListener", "SQLListener"}
Chats == {1}
NoChat == 0

\* job names (JobName) and the two unnamed one-shots of app.py and shutdown
ACTUALIZER == "ACTUALIZER"
LISTENER == "LISTENER"
CHECKER == "CHECKER"
ONSTART == "_onstart"
ONCLOSE == "_onclose"

VARIABLES
  now,        \* wall clock
  defs,       \* the listener table: id -> [active, kind, valid]
  budget,     \* administrative interventions still allowed (bounds the model)
  listeners,  \* BugSignalService.__listeners: id -> runtime instance
  cronA,      \* stored occurrence of BugSignalService.__actualizer_cron
  jobs,       \* pending jobs of the job queue (a bag)
  tasks,      \* fired callbacks that have not run yet (a bag)
  fc,         \* the force-check command: its wait loop
  alive,      \* the process runs
  started,    \* the first reconciliation pass has run
  last,       \* history: the step just taken and what it did
  world,      \* SpecFS: the file system under the tracked path
  fsl,        \* SpecFS: a FileSystemListener instance
  snap,       \* SpecFS history: the file system when fsl's checkpoint was taken
  swapped,    \* SpecFS history: fsl replaced its predecessor and has not checked yet
  developers, \* BugSignalService.__developers, the cached developer audience
  passrows,   \* history: the rows the latest successful pass read
  running,    \* the callbacks inside listener.check(), each with the checkpoint it read
  passing,    \* the pass between its clearing of the map and its loop over the rows
  sched,      \* SpecCron: a CronSchedule, its period and its stored occurrence
  conf,       \* SpecCron: the timezone of the configuration and what start-up made of it
  dbrows,     \* SpecSQL: the timestamps of the rows in the polled table
  sql,        \* SpecSQL: a SQLListener instance and its check() in progress
  entry,      \* SpecRow: one definition, its live instance and the checkpoint of its last check
  send        \* SpecSend: the messages of one dispatch and its delivery tasks

svars == <<defs, budget, listeners, cronA, jobs, tasks, fc, alive, started, developers, passrows, running,
          passing>>
fsvars == <<world, fsl, snap, swapped>>
cvars == <<sched, conf>>
dvars == <<send>>
qvars == <<dbrows, sql>>
rvars == <<entry>>
vars == <<now, defs, budget, listeners, cronA, jobs, tasks, fc, alive, started, last,
          world, fsl, snap, swapped, sched, conf, developers, passrows, send, running, dbrows, sql,
          passing, entry>>

\* ------------------------------------------------------------ CronSchedule
\* croniter(expr, start).get_next(): the first occurrence strictly after start
CronInit(t, period) == ((t \div period) + 1) * period

\* croniter.get_next() from the stored occurrence
CronGetNext(cur, period) == cur + period

\* CronSchedule.next_t: (expired, returned occurrence, stored occurrence after)
NextT(cur, period, t) ==
  IF cur <= t
    THEN [expired |-> TRUE, when |-> CronGetNext(cur, period), cur |-> CronGetNext(cur, period)]
    ELSE [expired |-> FALSE, when |-> cur, cur |-> cur]

\* ------------------------------------------------------------------- jobs
\* run_once(callback, when, data=JobData(lid), name, chat_id); `old` is history:
\* the kind of the instance a pass meant to flush with this job, else "none"
Job(name, lid, when, chat, old) ==
  [name |-> name, lid |-> lid, when |-> when, chat |-> chat, old |-> old]

\* job_queue.get_jobs_by_name(name)
GetJobsByName(q, name) == {j \in BagToSet(q) : j.name = name}

\* mutant: the one-shot jobs of the check command are removed as well
RemoveByNameAndCheckers(q, name) ==
  LET keep == {j \in BagToSet(q) : j.name # name /\ j.name # CHECKER}
  IN  [j \in keep |-> q[j]]

\* the bag q without any job of the given name (job.schedule_removal() on each)
RemoveByName(q, name) ==
  LET keep == {j \in BagToSet(q) : j.name # name}
  IN  [j \in keep |-> q[j]]

\* ------------------------------------------------------------- listeners
NoListener == [kind |-> "none", updated |-> 0, cur |-> 0]

\* ListenerFactory(row.classname)(**kwargs): BaseListener.__init__ stamps
\* updated with the construction time, CronSchedule.__init__ stores the first
\* occurrence after it
Construct(kind, t) == [kind |-> kind, updated |-> t, cur |-> CronInit(t, ListenerPeriod)]

\* inherit(): the checkpoint of the previous instance
Inherit(new, old) == [new EXCEPT !.updated = old.updated]

Live(lmap) == {i \in Ids : lmap[i].kind # "none"}

\* ------------------------------------------------- FileSystemListener
\* The tracked path is ROOT; Items are the files under it that the mask
\* matches.  world = [root, rm, ex, m]: what ROOT is, its mtime when a file,
\* the files that exist under it when a directory, and their mtimes.
ROOT == "root"
Items == {"a", "b"}
Paths == {ROOT} \cup Items
RootKinds == {"absent", "file", "dir"}

NoFiles == [c \in Items |-> 0]
EmptyWorld == [root |-> "absent", rm |-> 0, ex |-> {}, m |-> NoFiles]

\* pathlib: exists(), is_file(), is_dir(), stat().st_mtime
Exists(w, p) == IF p = ROOT THEN w.root # "absent" ELSE p \in w.ex
IsFile(w, p) == IF p = ROOT THEN w.root = "file" ELSE p \in w.ex
IsDir(w, p) == p = ROOT /\ w.root = "dir"
Mtime(w, p) == IF p = ROOT THEN w.rm ELSE w.m[p]

\* the values of the _state dictionary: no key, None, a datetime, a set
NoKey == [t |-> "nokey", m |-> 0, c |-> {}]
NoneV == [t |-> "none", m |-> 0, c |-> {}]
TimeV(m) == [t |-> "time", m |-> m, c |-> {}]
SetV(c) == [t |-> "set", m |-> 0, c |-> c]

\* __folder_content(path): the files found by walking the directory
FolderContent(w, p) == w.ex

\* __filesystem_items()
FilesystemItems(mask, w) == IF w.root = "dir" /\ mask THEN w.ex ELSE {ROOT}

\* __default(item)
Default(w, p) ==
  IF IsFile(w, p) THEN TimeV(Mtime(w, p))
  ELSE IF IsDir(w, p) THEN SetV(FolderContent(w, p))
  ELSE NoneV

Keys(st) == {p \in Paths : st[p].t # "nokey"}

\* FileSystemListener.__init__ at time t
FSConstruct(mask, w, t) ==
  [mask |-> mask, updated |-> t,
   state |-> [p \in Paths |-> IF p \in FilesystemItems(mask, w) THEN Default(w, p) ELSE NoKey]]

\* FileSystemListener.inherit(other)
FSInherit(new, other) ==
  [new EXCEPT
     !.state = [p \in Paths |->
                  IF p \in Keys(new.state) /\ p \in Keys(other.state)
                    THEN other.state[p] ELSE new.state[p]],
     !.updated = other.updated]

\* mutant: the message of a folder leaves out the removed files
MsgAddedOnly(t, p, added, removed) == [t |-> t, item |-> p, added |-> added, removed |-> 0]

\* the messages of check()
Msg(t, p, added, removed) == [t |-> t, item |-> p, added |-> added, removed |-> removed]

\* mutant: a tracked file is reported at every check
FileModifiedAlways(file_updated, updated) == TRUE

\* check(), line 156: the file was written after the checkpoint
FileModified(file_updated, updated) == file_updated > updated

\* one turn of the loop of check() on item p; acc = [state, msgs, raised].
\* ioerr is the item at which the file system raises OSError, if any.
CheckItem(w, upd, acc, p, ioerr) ==
  IF acc.raised THEN acc
  ELSE IF p = ioerr THEN [acc EXCEPT !.raised = TRUE]
  ELSE IF ~Exists(w, p) THEN
    \* _state.pop(item) raises KeyError when the item has no key
    IF acc.state[p].t = "nokey"
      THEN [acc EXCEPT !.raised = TRUE]
      ELSE [acc EXCEPT !.state[p] = NoKey,
                       !.msgs = @ \cup {Msg("Removed", p, 0, 0)}]
  \* _state is a defaultdict: a missing key reads as None
  ELSE IF acc.state[p].t \in {"nokey", "none"} THEN
    [acc EXCEPT !.state[p] = Default(w, p),
                !.msgs = @ \cup {Msg("Created", p, 0, 0)}]
  ELSE IF IsFile(w, p) THEN
    [acc EXCEPT !.state[p] = TimeV(Mtime(w, p)),
                !.msgs = IF FileModified(Mtime(w, p), upd)
                           THEN @ \cup {Msg("File modified", p, 0, 0)} ELSE @]
  \* a directory: the stored state must be a set (AssertionError otherwise)
  ELSE IF acc.state[p].t # "set" THEN [acc EXCEPT !.raised = TRUE]
  ELSE LET content == FolderContent(w, p)
           added == content \ acc.state[p].c
           removed == acc.state[p].c \ content
       IN  [acc EXCEPT !.state[p] = SetV(content),
                       !.msgs = IF added # {} \/ removed # {}
                                  THEN @ \cup {Msg("Folder", p, Cardinality(added),
                                                   Cardinality(removed))}
                                  ELSE @]

RECURSIVE CheckLoop(_, _, _, _, _, _)
CheckLoop(w, upd, acc, order, k, ioerr) ==
  IF k > Len(order) THEN acc
  ELSE CheckLoop(w, upd, CheckItem(w, upd, acc, order[k], ioerr), order, k + 1, ioerr)

\* the items check() iterates over: a set, so the order is not fixed
CheckItems(inst, w) == FilesystemItems(inst.mask, w) \cup Keys(inst.state)

Orders(S) ==
  {o \in [1..Cardinality(S) -> S] : \A i, j \in 1..Cardinality(S) : o[i] = o[j] => i = j}

\* FileSystemListener.check() at time t: the instance after, the messages
\* returned and whether it raised
FSCheckRun(inst, w, t, order, ioerr) ==
  LET r == CheckLoop(w, inst.updated, [state |-> inst.state, msgs |-> {}, raised |-> FALSE],
                     order, 1, ioerr)
  IN  [inst |-> [inst EXCEPT !.state = r.state,
                             !.updated = IF r.raised THEN @ ELSE t],
       msgs |-> IF r.raised THEN {} ELSE r.msgs,
       raised |-> r.raised]

\* the file-system variables of a behaviour of the service alone
FSIdle ==
  /\ world = EmptyWorld
  /\ fsl = FSConstruct(FALSE, EmptyWorld, 0)
  /\ snap = EmptyWorld
  /\ swapped = FALSE

\* ------------------------------------------------------------- start-up
\* the timezone strings a configuration file may hold; the last one names no
\* timezone
UTC == "UTC"
TimezoneStrings == {UTC, "Asia/Tokyo", "Mars/Phobos"}
ValidTimezone(s) == s \in {UTC, "Asia/Tokyo"}

\* the local clock of a timezone runs ahead of the UTC clock by its offset
Offset(tz) == IF tz = UTC THEN 0 ELSE 1

\* DEFAULT['timezone'] (defaults.py 70)
DefaultTimezone == UTC

\* BugSignalService.__init__, lines 146-150: pytz.timezone(config['timezone'])
\* or, when that raises, UTC and one warning
ServiceTimezone(s) ==
  IF ValidTimezone(s) THEN [tz |-> s, warnings |-> 0] ELSE [tz |-> UTC, warnings |-> 1]

\* app.py 22-62 for a configuration file whose timezone is s: the
\* configuration is built from the file, the service is constructed with its
\* default argument (line 51, config = DEFAULT), and the application is built
\* with pytz.timezone(config['timezone']) (line 61), which raises for a
\* string that names no timezone
Startup(s) ==
  LET given == DefaultTimezone
      r == ServiceTimezone(given)
  IN  [configured |-> s, given |-> given, tz |-> r.tz, warnings |-> r.warnings,
       built |-> ValidTimezone(s)]

\* croniter(expr, now(tz)).get_next(): the first occurrence of the local
\* clock after t, as an instant of the UTC clock
CronInitTz(t, period, tz) == CronInit(t + Offset(tz), period) - Offset(tz)

\* the schedule of SpecCron, at rest in the other specifications
CronIdle ==
  /\ sched = [period |-> ActualizerPeriod, cur |-> 0]
  /\ conf = Startup(DefaultTimezone)

\* the dispatch of SpecSend, at rest in the other specifications
SendIdle == send = [msgs |-> <<>>, s |-> <<>>, wait |-> [pc |-> "none", timeout |-> FALSE]]

\* no pass is under way
NoPass ==
  [on |-> FALSE, trig |-> "none", old |-> [i \in Ids |-> NoListener], qbefore |-> EmptyBag]

\* the definition of SpecRow, at rest in the other specifications
NoCheck == -1
RowIdle ==
  entry = [kind |-> "SQLListener", valid |-> TRUE, inst |-> NoListener, checked |-> NoCheck,
         skipped |-> FALSE]

\* the listener of SpecSQL, at rest in the other specifications
SQLIdle ==
  /\ dbrows = {}
  /\ sql = [continual |-> TRUE, query |-> "newer", updated |-> 0, pc |-> "idle", t0 |-> 0]

\* --------------------------------------------------------------- Init
DefRows == [active : BOOLEAN, kind : Kinds, valid : BOOLEAN]

ServiceInit ==
  /\ defs = [i \in Ids |-> [active |-> TRUE,
                             kind |-> IF i = 1 THEN "FileSystemListener" ELSE "SQLListener",
                             valid |-> TRUE]]
  /\ budget = MaxOps
  /\ listeners = [i \in Ids |-> NoListener]
  /\ cronA = CronInit(0, ActualizerPeriod)
  /\ jobs = SetToBag({Job(ONSTART, 0, 0, NoChat, "none")})
  /\ tasks = EmptyBag
  /\ fc = [pc |-> "idle", started |-> 0, chat |-> NoChat]
  /\ alive = TRUE
  /\ started = FALSE
  /\ developers = {}
  /\ passrows = {}
  /\ running = {}
  /\ passing = NoPass

Init ==
  /\ now = 0
  /\ ServiceInit
  /\ last = [op |-> "Init"]
  /\ FSIdle
  /\ CronIdle
  /\ SendIdle
  /\ SQLIdle
  /\ RowIdle

\* ------------------------------------------------------------ environment
\* mutant: a callback can be suspended inside listener.check()
BusyNever == FALSE

\* mutant: a pass can be suspended between its clearing of the map and its
\* loop over the rows
InPassNever == FALSE

\* a pass has cleared the map and has not yet finished its loop over the rows
InPass == passing.on

\* The event loop runs a callback up to its next await without running
\* anything else.  __check_listener holds no await between the lookup of the
\* instance and the end of its finally clause (service.py 719-741), and
\* __actualize holds none at all (655-712): while a callback is inside
\* check(), or a pass is between its clearing of the map and the end of its
\* loop over the rows, no other callback, command or job runs and no time is
\* taken from the loop.
Busy == running # {} \/ InPass

\* the jobs that are due
Due(q) == {j \in BagToSet(q) : j.when <= now}

\* the clock of an idle event loop: the scheduler fires a job when it is due
\* and a spawned callback runs at once, so time passes only when neither
\* waits
Tick ==
  /\ alive
  /\ ~Busy
  /\ now < MaxTime
  /\ Due(jobs) = {}
  /\ tasks = EmptyBag
  /\ now' = now + 1
  /\ last' = [op |-> "Tick"]
  /\ UNCHANGED <<defs, budget, listeners, cronA, jobs, tasks, fc, alive, started>>
  /\ UNCHANGED <<fsvars, dvars, cvars, qvars, rvars, developers, passrows, running, passing>>

\* an administrative edit of one column of one row of the listener table (the
\* SWITCH of listeners_menu, or an edit of classname / parameters in the
\* database)
EditDef(i, row) ==
  /\ alive
  /\ ~Busy
  /\ budget > 0
  /\ Cardinality({f \in {"active", "kind", "valid"} : row[f] # defs[i][f]}) = 1
  /\ defs' = [defs EXCEPT ![i] = row]
  /\ budget' = budget - 1
  /\ last' = [op |-> "EditDef", lid |-> i]
  /\ UNCHANGED <<now, listeners, cronA, jobs, tasks, fc, alive, started>>
  /\ UNCHANGED <<fsvars, dvars, cvars, qvars, rvars, developers, passrows, running, passing>>

\* the scheduler takes a due job off the queue and spawns its callback
Fire(j) ==
  /\ alive
  /\ ~Busy
  /\ j \in BagToSet(jobs)
  /\ j.when <= now
  /\ jobs' = jobs (-) SetToBag({j})
  /\ tasks' = tasks (+) SetToBag({j})
  /\ last' = [op |-> "Fire", name |-> j.name, lid |-> j.lid]
  /\ UNCHANGED <<now, defs, budget, listeners, cronA, fc, alive, started>>
  /\ UNCHANGED <<fsvars, dvars, cvars, qvars, rvars, developers, passrows, running, passing>>

\* ------------------------------------------------- chats and subscriptions
\* the chat table: chat 1 is the active private chat the commands come from,
\* its role without DEVELOPER; 2 and 5 are active private chats of
\* developers, 3 a developer's private chat that is inactive, 4 an active
\* group chat whose role includes DEVELOPER
ChatIds == {1, 2, 3, 4, 5}
ChatTable ==
  [c \in ChatIds |->
     [active |-> c # 3, private |-> c # 4, developer |-> c # 1]]

\* the subscription table, rows (chat, listener, active)
SubscriptionTable ==
  { [chat |-> 1, lid |-> 1, active |-> TRUE],
    [chat |-> 2, lid |-> 1, active |-> FALSE],
    [chat |-> 3, lid |-> 1, active |-> TRUE],
    [chat |-> 4, lid |-> 1, active |-> TRUE],
    [chat |-> 2, lid |-> 2, active |-> TRUE],
    [chat |-> 3, lid |-> 2, active |-> FALSE],
    [chat |-> 5, lid |-> 2, active |-> TRUE] }

\* mutant: the chat's own active flag is not looked at
SubscribersAnyChat(lid, active_only) ==
  {c \in ChatIds : \E r \in SubscriptionTable :
     /\ r.chat = c /\ r.lid = lid
     /\ r.active \in {TRUE, active_only}}

\* db.subscribers(listener_id, active_only): CHAT joined with SUBSCRIPTION
Subscribers(lid, active_only) ==
  {c \in ChatIds : \E r \in SubscriptionTable :
     /\ r.chat = c /\ r.lid = lid
     /\ r.active \in {TRUE, active_only}
     /\ ChatTable[c].active \in {TRUE, active_only}}

\* the audience _onstart collects: db.chats(active_only=True, of_types=PRIVATE)
\* filtered by the DEVELOPER role
Developers ==
  {c \in ChatIds : ChatTable[c].active /\ ChatTable[c].private /\ ChatTable[c].developer}

\* _onerror, case DBAPIError: the notice goes to the cached audience
Escalated == developers

\* _onerror, case ListenerCheckError: the cached audience and the chat of the
\* job, when it has one
CheckFailedAudience(chat) ==
  IF chat # NoChat THEN developers \cup {chat} ELSE developers

\* ------------------------------------------------------------ __actualize
\* mutant: the read returns the inactive rows too
ActiveRowsAll == Ids

\* the rows db.listeners(active_only=True) returns
ActiveRows == {i \in Ids : defs[i].active}

\* mutant: the first construction that raises ends the loop over the rows
\* (the rows come ordered by listener_id)
BuiltUntilFailure ==
  {i \in ActiveRows : \A k \in ActiveRows : k <= i => defs[k].valid}

\* the rows whose listener the factory constructs without raising; a row
\* whose construction raises is logged and skipped (service.py 686-689)
Built == {i \in ActiveRows : defs[i].valid}

\* service.py 690-693: the new instance of row i, inheriting from a previous
\* instance of the same class
Rebuilt(i) ==
  IF passing.old[i].kind = defs[i].kind
    THEN Inherit(Construct(defs[i].kind, now), passing.old[i])
    ELSE Construct(defs[i].kind, now)

\* service.py 694-701: the rows whose previous instance is of another class
Flushed == {i \in Built : passing.old[i].kind # "none" /\ passing.old[i].kind # defs[i].kind}

\* mutant: the actualizer job is scheduled without looking at the queue
RearmAlways(q, when) == q (+) SetToBag({Job(ACTUALIZER, 0, when, NoChat, "none")})

\* service.py 665-672: the actualizer job is scheduled if none is pending
Rearm(q, when) ==
  IF GetJobsByName(q, ACTUALIZER) # {}
    THEN q
    ELSE q (+) SetToBag({Job(ACTUALIZER, 0, when, NoChat, "none")})

\* mutant: the map is not cleared before the loop
RefreshedMapNoClear ==
  [i \in Ids |->
     IF i \in Built
       THEN [Rebuilt(i) EXCEPT !.cur = NextT(Rebuilt(i).cur, ListenerPeriod, now).cur]
       ELSE passing.old[i]]

\* service.py 673-678: the map after the loop over the rows
RefreshedMap ==
  [i \in Ids |->
     IF i \in Built
       THEN [Rebuilt(i) EXCEPT !.cur = NextT(Rebuilt(i).cur, ListenerPeriod, now).cur]
       ELSE NoListener]

\* service.py 658-678: a pass whose configuration read succeeded re-arms the
\* actualizer, removes the jobs named LISTENER, copies the map and clears it
PassClear(trig) ==
  LET nt == NextT(cronA, ActualizerPeriod, now)
  IN  /\ cronA' = nt.cur
      /\ jobs' = RemoveByName(Rearm(jobs, nt.when), LISTENER)
      /\ listeners' = [i \in Ids |-> NoListener]
      /\ passing' = [on |-> TRUE, trig |-> trig, old |-> listeners, qbefore |-> jobs]
      /\ last' = [op |-> "PassClear", trig |-> trig]
      /\ UNCHANGED passrows

\* service.py 679-712: the loop over the rows of a pass whose read succeeded
PassOk(trig) ==
  LET lj == {Job(LISTENER, i, NextT(Rebuilt(i).cur, ListenerPeriod, now).when, NoChat, "none") : i \in Built}
      cj == {Job(CHECKER, i, now, NoChat, passing.old[i].kind) : i \in Flushed}
  IN  /\ jobs' = jobs (+) SetToBag(cj) (+) SetToBag(lj)
      /\ listeners' = RefreshedMap
      /\ passrows' = {i \in Ids : defs[i].active}
      /\ last' = [op |-> "PassOk", trig |-> trig,
                  hadJob |-> GetJobsByName(passing.qbefore, ACTUALIZER) # {},
                  rows |-> ActiveRows, built |-> Built, flushed |-> Flushed,
                  before |-> passing.old, qbefore |-> passing.qbefore, scheduled |-> lj,
                  retired |-> Live(passing.old) \ ActiveRows,
                  closed |-> {}]

\* mutant: the actualizer is re-armed only when the read succeeded
PassFailNoRearm(trig) ==
  /\ jobs' = jobs
  /\ last' = [op |-> "PassFail", trig |-> trig,
              hadJob |-> GetJobsByName(jobs, ACTUALIZER) # {},
              before |-> listeners, qbefore |-> jobs,
              notified |-> Escalated]
  /\ UNCHANGED <<listeners, cronA, passrows, passing>>

\* mutant: a failed read takes the actualizer off the queue
PassFailUnschedule(trig) ==
  /\ jobs' = RemoveByName(jobs, ACTUALIZER)
  /\ last' = [op |-> "PassFail", trig |-> trig,
              hadJob |-> GetJobsByName(jobs, ACTUALIZER) # {},
              before |-> listeners, qbefore |-> jobs,
              notified |-> Escalated]
  /\ UNCHANGED <<listeners, cronA, passrows, passing>>

\* mutant: a failed read goes on to remove the jobs named LISTENER and to
\* clear the map
PassFailClears(trig) ==
  /\ jobs' = RemoveByName(Rearm(jobs, now + RetryInterval), LISTENER)
  /\ listeners' = [i \in Ids |-> NoListener]
  /\ last' = [op |-> "PassFail", trig |-> trig,
              hadJob |-> GetJobsByName(jobs, ACTUALIZER) # {},
              before |-> listeners, qbefore |-> jobs,
              notified |-> Escalated]
  /\ UNCHANGED <<cronA, passrows, passing>>

\* mutant: a failed read re-arms at the actualizer's cron time
PassFailCron(trig) ==
  /\ jobs' = Rearm(jobs, NextT(cronA, ActualizerPeriod, now).when)
  /\ last' = [op |-> "PassFail", trig |-> trig,
              hadJob |-> GetJobsByName(jobs, ACTUALIZER) # {},
              before |-> listeners, qbefore |-> jobs,
              notified |-> Escalated]
  /\ UNCHANGED <<listeners, cronA, passrows, passing>>

\* a pass whose configuration read raised (service.py 660-662, 665-672)
PassFail(trig) ==
  /\ jobs' = Rearm(jobs, now + RetryInterval)
  /\ last' = [op |-> "PassFail", trig |-> trig,
              hadJob |-> GetJobsByName(jobs, ACTUALIZER) # {},
              before |-> listeners, qbefore |-> jobs,
              notified |-> Escalated]
  /\ UNCHANGED <<listeners, cronA, passrows, passing>>

\* __actualize up to the point where the map is cleared, or to the raise
Actualize(trig) == PassClear(trig) \/ PassFail(trig)

\* the rest of a pass under way; a pass run by _onstart returns to it, and
\* _onstart collects the developer audience (service.py 596-601)
PassBuild ==
  /\ alive
  /\ passing.on
  /\ PassOk(passing.trig)
  /\ passing' = NoPass
  /\ developers' = IF passing.trig = "start" THEN Developers ELSE developers
  /\ UNCHANGED <<now, defs, budget, cronA, tasks, fc, alive, started>>
  /\ UNCHANGED <<fsvars, dvars, cvars, qvars, rvars, running>>

\* the actualizer job's callback
RunActualizer(t) ==
  /\ alive
  /\ ~Busy
  /\ t \in BagToSet(tasks)
  /\ t.name = ACTUALIZER
  /\ tasks' = tasks (-) SetToBag({t})
  /\ Actualize("job")
  /\ UNCHANGED <<now, defs, budget, fc, alive, started, developers>>
  /\ UNCHANGED <<fsvars, dvars, cvars, qvars, rvars, running>>

\* _onstart enters the first pass (service.py 596-598); a pass that raises
\* leaves _onstart before the collection of the developer audience
OnStart(t) ==
  /\ alive
  /\ ~Busy
  /\ t \in BagToSet(tasks)
  /\ t.name = ONSTART
  /\ tasks' = tasks (-) SetToBag({t})
  /\ Actualize("start")
  /\ started' = TRUE
  /\ UNCHANGED <<now, defs, budget, fc, alive, developers>>
  /\ UNCHANGED <<fsvars, dvars, cvars, qvars, rvars, running>>

\* the actualize command; updates are handled one at a time, so no command
\* is handled while the check command waits
ManualActualize ==
  /\ alive
  /\ ~Busy
  /\ started
  /\ fc.pc = "idle"
  /\ budget > 0
  /\ budget' = budget - 1
  /\ Actualize("manual")
  /\ UNCHANGED <<now, defs, tasks, fc, alive, started, developers>>
  /\ UNCHANGED <<fsvars, dvars, cvars, qvars, rvars, running>>

\* -------------------------------------------------------- __check_listener
\* what listener.check() and db.subscribers() did: check raised; check
\* returned no message; check returned messages and the subscribers were
\* resolved; check returned messages and db.subscribers raised
Outcomes == {"raise", "none", "msgs", "dbfail"}

\* `updated` after check(): a check that raises leaves it alone;
\* FileSystemListener.check stamps the time of the call; SQLListener.check
\* (continual, the default) stamps the newest row's time, here the time of
\* the call, and leaves it alone when no row came back.  The file-system
\* driver's own state is modelled in SpecFS.
UpdatedAfter(l, out, t) ==
  IF out = "raise" THEN l.updated
  ELSE IF l.kind = "FileSystemListener" THEN t
  ELSE IF out = "none" THEN l.updated
  ELSE t

\* mutant: the finally clause reschedules after a job of any name
RescheduleGuardAnyName(q, t) == GetJobsByName(q, LISTENER) = {}

\* mutant: the job is rescheduled without looking at the queue
RescheduleGuardAlways(q, t) == t.name = LISTENER

\* service.py 730-741: the finally clause; next_t is evaluated only for a
\* job named LISTENER, and the job is scheduled only if no job named
\* LISTENER is pending
RescheduleGuard(q, t) == t.name = LISTENER /\ GetJobsByName(q, LISTENER) = {}

\* service.py 714-722: the callback looks its listener up and enters check()
CheckStart(t) ==
  /\ alive
  /\ ~Busy
  /\ t \in BagToSet(tasks)
  /\ t.name \in {LISTENER, CHECKER}
  /\ tasks' = tasks (-) SetToBag({t})
  /\ IF listeners[t.lid].kind = "none"
       THEN \* the assertion of line 719 fails before the try
            /\ last' = [op |-> "CheckListener", name |-> t.name, lid |-> t.lid, chat |-> t.chat,
                        outcome |-> "assert", resolved |-> FALSE, sent |-> {},
                        error |-> <<>>, notified |-> {}]
            /\ UNCHANGED running
       ELSE /\ running' = running \cup {[t |-> t, read |-> listeners[t.lid].updated]}
            /\ last' = [op |-> "CheckStart", name |-> t.name, lid |-> t.lid]
  /\ UNCHANGED <<now, defs, budget, listeners, cronA, jobs, fc, alive, started>>
  /\ UNCHANGED <<fsvars, dvars, cvars, qvars, rvars, developers, passrows, passing>>

\* service.py 723-749: check() returns or raises, the subscribers are
\* resolved, the finally clause reschedules, the deliveries are dispatched
CheckListener(r) ==
  /\ alive
  /\ r \in running
  /\ running' = running \ {r}
  /\ \E out \in Outcomes :
       LET t == r.t
           l == listeners[t.lid]
           nt == NextT(l.cur, ListenerPeriod, now)
       IN  /\ listeners' = [listeners EXCEPT ![t.lid] =
                              [l EXCEPT !.updated = UpdatedAfter(l, out, now),
                                        !.cur = IF t.name = LISTENER THEN nt.cur ELSE l.cur]]
           /\ jobs' = IF RescheduleGuard(jobs, t)
                        THEN jobs (+) SetToBag({Job(LISTENER, t.lid, nt.when, NoChat, "none")})
                        ELSE jobs
           /\ last' = [op |-> "CheckListener", name |-> t.name, lid |-> t.lid, chat |-> t.chat,
                       outcome |-> out, kind |-> l.kind, old |-> t.old,
                       when |-> nt.when, others |-> GetJobsByName(jobs, LISTENER),
                       resolved |-> out \in {"msgs", "dbfail"},
                       sent |-> IF out = "msgs" THEN Subscribers(t.lid, TRUE) ELSE {},
                       error |-> IF out \in {"raise", "dbfail"}
                                   THEN <<t.lid, t.chat>> ELSE <<>>,
                       notified |-> IF out \in {"raise", "dbfail"}
                                      THEN CheckFailedAudience(t.chat) ELSE {},
                       read |-> r.read, seen |-> l.updated]
  /\ UNCHANGED <<now, defs, budget, cronA, tasks, fc, alive, started>>
  /\ UNCHANGED <<fsvars, dvars, cvars, qvars, rvars, developers, passrows, passing>>

\* ----------------------------------------------------------------- check
\* the jobs the wait loop of the check command looks for
CheckerPending(q) == GetJobsByName(q, CHECKER) # {}

\* mutant: the requested identifiers are not looked at
ForceTargetsAll(ids) == Live(listeners)

\* service.py 189-199: one one-shot job per live listener that is requested
ForceTargets(ids) == {i \in Live(listeners) : ids = {} \/ i \in ids}

\* the check command up to its first suspension
ForceCheck(c, ids) ==
  /\ alive
  /\ ~Busy
  /\ started
  /\ fc.pc = "idle"
  /\ budget > 0
  /\ budget' = budget - 1
  /\ jobs' = jobs (+) SetToBag({Job(CHECKER, i, now, c, "none") : i \in ForceTargets(ids)})
  /\ IF CheckerPending(jobs')
       THEN /\ fc' = [pc |-> "wait", started |-> now, chat |-> c]
            /\ last' = [op |-> "ForceCheck", ids |-> ids, targets |-> ForceTargets(ids),
                        request |-> TRUE, chat |-> c, live |-> Live(listeners),
                        added |-> jobs' (-) jobs, told |-> {}]
       ELSE /\ fc' = fc
            /\ last' = [op |-> "ForceDone", ids |-> ids, targets |-> ForceTargets(ids),
                        request |-> TRUE, chat |-> c, live |-> Live(listeners),
                        added |-> jobs' (-) jobs, told |-> {c}]
  /\ UNCHANGED <<now, defs, listeners, cronA, tasks, alive, started>>
  /\ UNCHANGED <<fsvars, dvars, cvars, qvars, rvars, developers, passrows, running, passing>>

\* service.py 202-208: the loop finds no one-shot job pending within the budget
ForceDone ==
  /\ alive
  /\ ~Busy
  /\ fc.pc = "wait"
  /\ now - fc.started < CommonTimeout
  /\ ~CheckerPending(jobs)
  /\ fc' = [pc |-> "idle", started |-> 0, chat |-> NoChat]
  /\ last' = [op |-> "ForceDone", ids |-> {}, targets |-> {},
              request |-> FALSE, chat |-> fc.chat, live |-> {},
              added |-> EmptyBag, told |-> {fc.chat}]
  /\ UNCHANGED <<now, defs, budget, listeners, cronA, jobs, tasks, alive, started>>
  /\ UNCHANGED <<fsvars, dvars, cvars, qvars, rvars, developers, passrows, running, passing>>

\* _onerror for the TimeoutError of the check command: it matches none of
\* the cases MenuError, ListenerCheckError, DBAPIError and falls to `case _`,
\* which sends nothing
TimeoutAudience(chat) == {}

\* service.py 202-207: the budget is used up, TimeoutError is raised
ForceTimeout ==
  /\ alive
  /\ ~Busy
  /\ fc.pc = "wait"
  /\ now - fc.started >= CommonTimeout
  /\ fc' = [pc |-> "idle", started |-> 0, chat |-> NoChat]
  /\ last' = [op |-> "ForceTimeout", chat |-> fc.chat, told |-> TimeoutAudience(fc.chat),
              pending |-> CheckerPending(jobs)]
  /\ UNCHANGED <<now, defs, budget, listeners, cronA, jobs, tasks, alive, started>>
  /\ UNCHANGED <<fsvars, dvars, cvars, qvars, rvars, developers, passrows, running, passing>>

\* -------------------------------------------------------------- shutdown
\* the CONFIRM button of the shutdown menu schedules _onclose
ShutdownConfirm ==
  /\ alive
  /\ ~Busy
  /\ started
  /\ fc.pc = "idle"
  /\ budget > 0
  /\ budget' = budget - 1
  /\ jobs' = jobs (+) SetToBag({Job(ONCLOSE, 0, now + CloseDelay, NoChat, "none")})
  /\ last' = [op |-> "ShutdownConfirm"]
  /\ UNCHANGED <<now, defs, listeners, cronA, tasks, fc, alive, started>>
  /\ UNCHANGED <<fsvars, dvars, cvars, qvars, rvars, developers, passrows, running, passing>>

\* _onclose: every job is removed and the process is signalled
OnClose(t) ==
  /\ alive
  /\ ~Busy
  /\ t \in BagToSet(tasks)
  /\ t.name = ONCLOSE
  /\ tasks' = EmptyBag
  /\ jobs' = EmptyBag
  /\ alive' = FALSE
  /\ last' = [op |-> "OnClose"]
  /\ UNCHANGED <<now, defs, budget, listeners, cronA, fc, started>>
  /\ UNCHANGED <<fsvars, dvars, cvars, qvars, rvars, developers, passrows, running, passing>>

\* ------------------------------------------------------------------ Spec
Next ==
  \/ Tick
  \/ \E i \in Ids, row \in DefRows : EditDef(i, row)
  \/ \E j \in BagToSet(jobs) : Fire(j)
  \/ \E t \in BagToSet(tasks) : RunActualizer(t)
  \/ \E t \in BagToSet(tasks) : OnStart(t)
  \/ ManualActualize
  \/ PassBuild
  \/ \E t \in BagToSet(tasks) : CheckStart(t)
  \/ \E r \in running : CheckListener(r)
  \/ \E c \in Chats, ids \in SUBSET Ids : ForceCheck(c, ids)
  \/ ForceDone
  \/ ForceTimeout
  \/ ShutdownConfirm
  \/ \E t \in BagToSet(tasks) : OnClose(t)

Spec == Init /\ [][Next]_vars

\* ================================================================ SpecFS
MaxClock == 5
NoItem == "-"

\* the listener was constructed at time 0 over some file system
InitFS ==
  /\ now = 1
  /\ ServiceInit
  /\ \E k \in RootKinds, e \in SUBSET Items, mask \in BOOLEAN :
       /\ k # "dir" => e = {}
       /\ world = [root |-> k, rm |-> 0, ex |-> e, m |-> NoFiles]
       /\ fsl = FSConstruct(mask, world, 0)
  /\ snap = world
  /\ swapped = FALSE
  /\ CronIdle
  /\ SendIdle
  /\ SQLIdle
  /\ RowIdle
  /\ last = [op |-> "InitFS"]

\* every event takes place at an instant of its own
FSStep(op) ==
  /\ now < MaxClock
  /\ now' = now + 1
  /\ last' = op
  /\ UNCHANGED <<svars, cvars, dvars, qvars, rvars>>

\* a file is written
FSTouch(p) ==
  /\ IsFile(world, p)
  /\ world' = IF p = ROOT THEN [world EXCEPT !.rm = now] ELSE [world EXCEPT !.m[p] = now]
  /\ FSStep([op |-> "FSTouch", item |-> p])
  /\ UNCHANGED <<fsl, snap, swapped>>

\* a file matching the mask is created under the directory
FSCreate(c) ==
  /\ world.root = "dir"
  /\ c \notin world.ex
  /\ world' = [world EXCEPT !.ex = @ \cup {c}, !.m[c] = now]
  /\ FSStep([op |-> "FSCreate", item |-> c])
  /\ UNCHANGED <<fsl, snap, swapped>>

\* a file under the directory is deleted
FSRemove(c) ==
  /\ c \in world.ex
  /\ world' = [world EXCEPT !.ex = @ \ {c}, !.m[c] = 0]
  /\ FSStep([op |-> "FSRemove", item |-> c])
  /\ UNCHANGED <<fsl, snap, swapped>>

\* the tracked path is deleted, or replaced by a file or an empty directory
FSSetRoot(k) ==
  /\ k # world.root
  /\ world' = [root |-> k, rm |-> IF k = "file" THEN now ELSE 0, ex |-> {}, m |-> NoFiles]
  /\ FSStep([op |-> "FSSetRoot", kind |-> k])
  /\ UNCHANGED <<fsl, snap, swapped>>

\* listener.check() (service.py 724)
FSCheck(order, ioerr) ==
  LET r == FSCheckRun(fsl, world, now, order, ioerr)
  IN  /\ fsl' = r.inst
      /\ snap' = IF r.raised THEN snap ELSE world
      /\ swapped' = FALSE
      /\ FSStep([op |-> "FSCheck", raised |-> r.raised, msgs |-> r.msgs,
                 before |-> fsl, first |-> swapped, snap |-> snap,
                 again |-> last.op = "FSCheck" /\ ~last.raised, ioerr |-> ioerr,
                 prev |-> IF last.op = "FSCheck" THEN last.msgs ELSE {},
                 examined |-> Cardinality(CheckItems(fsl, world))])
      /\ UNCHANGED world

\* a pass rebuilds the listener with the same class and the same path and
\* mask (service.py 679-693, 703)
FSSwap ==
  /\ fsl' = FSInherit(FSConstruct(fsl.mask, world, now), fsl)
  /\ swapped' = TRUE
  /\ FSStep([op |-> "FSSwap", before |-> fsl])
  /\ UNCHANGED <<world, snap>>

NextFS ==
  \/ \E p \in Paths : FSTouch(p)
  \/ \E c \in Items : FSCreate(c)
  \/ \E c \in Items : FSRemove(c)
  \/ \E k \in RootKinds : FSSetRoot(k)
  \/ \E order \in Orders(CheckItems(fsl, world)), ioerr \in CheckItems(fsl, world) \cup {NoItem} :
       FSCheck(order, ioerr)
  \/ FSSwap

SpecFS == InitFS /\ [][NextFS]_vars

\* ============================================================== SpecCron
\* One CronSchedule under a passing clock: next_t is read at arbitrary
\* instants, any number of occurrences apart. The expression is "every
\* period-th instant".
MaxCron == 8
CronPeriods == {1, 2, 3}

\* CronSchedule.__init__ at an instant t
InitCron ==
  /\ ServiceInit
  /\ FSIdle
  /\ SendIdle
  /\ SQLIdle
  /\ RowIdle
  /\ \E t \in {0, 1}, period \in CronPeriods, s \in TimezoneStrings :
       /\ now = t
       /\ conf = Startup(s)
       /\ sched = [period |-> period, cur |-> CronInitTz(t, period, conf.tz)]
  /\ last = [op |-> "InitCron"]

\* time passes
CronTick ==
  /\ conf.built
  /\ now < MaxCron
  /\ now' = now + 1
  /\ last' = [op |-> "CronTick"]
  /\ UNCHANGED <<svars, fsvars, cvars, dvars, qvars, rvars>>

\* a read of CronSchedule.next_t
CronCall ==
  LET nt == NextT(sched.cur, sched.period, now)
  IN  /\ conf.built
      /\ sched' = [sched EXCEPT !.cur = nt.cur]
      /\ last' = [op |-> "NextT", expired |-> nt.expired, when |-> nt.when,
                  stored |-> sched.cur, again |-> last.op = "NextT",
                  prev |-> IF last.op = "NextT" THEN last.when ELSE 0]
      /\ UNCHANGED <<now, conf, svars, fsvars, dvars, qvars, rvars>>

NextCron == CronTick \/ CronCall

SpecCron == InitCron /\ [][NextCron]_vars

\* =============================================================== SpecSQL
\* One SQLListener over a table of messages that grows under a passing
\* clock.  A row is its timestamp (column 1); the query is one of two
\* shapes: the rows newer than :timestamp, or every row.  check() takes the
\* wall clock, runs the query and writes the checkpoint; the clock may
\* advance and rows may arrive while the query runs.
MaxSQL == 3
Stamps == 0..MaxSQL
Queries == {"newer", "all"}

MaxOf(S) == CHOOSE x \in S : \A y \in S : y <= x

\* conn.execute(query, dict(timestamp=self.updated)).all()
QueryResult(q, table, timestamp) ==
  IF q = "newer" THEN {r \in table : r > timestamp} ELSE table

\* mutant: the checkpoint is the wall clock whatever `continual` says
CheckpointWallClock(continual, rows, t0, updated) == t0

\* the checkpoint check() leaves (listener.py 223-226)
Checkpoint(continual, rows, t0, updated) ==
  IF ~continual THEN t0
  ELSE IF rows # {} THEN MaxOf(rows)
  ELSE updated

\* SQLListener.__init__: BaseListener.__init__ takes the wall clock
InitSQL ==
  /\ ServiceInit
  /\ FSIdle
  /\ CronIdle
  /\ SendIdle
  /\ RowIdle
  /\ \E t \in {0, 1}, c \in BOOLEAN, q \in Queries :
       /\ now = t
       /\ sql = [continual |-> c, query |-> q, updated |-> t, pc |-> "idle", t0 |-> 0]
  /\ dbrows = {}
  /\ last = [op |-> "InitSQL"]

\* time passes
SQLTick ==
  /\ now < MaxSQL
  /\ now' = now + 1
  /\ last' = [op |-> "SQLTick"]
  /\ UNCHANGED <<svars, fsvars, cvars, dvars, qvars, rvars>>

\* the source appends a row
SQLInsert(ts) ==
  /\ ts \notin dbrows
  /\ dbrows' = dbrows \cup {ts}
  /\ last' = [op |-> "SQLInsert", ts |-> ts]
  /\ UNCHANGED <<now, sql, svars, fsvars, cvars, dvars, rvars>>

\* check(), line 219: the wall clock is taken before the query
SQLCheckBegin ==
  /\ sql.pc = "idle"
  /\ sql' = [sql EXCEPT !.pc = "query", !.t0 = now]
  /\ last' = [op |-> "SQLCheckBegin"]
  /\ UNCHANGED <<now, dbrows, svars, fsvars, cvars, dvars, rvars>>

\* check(), lines 220-227: the query answers or fails
SQLCheck(fails) ==
  /\ sql.pc = "query"
  /\ LET rows == QueryResult(sql.query, dbrows, sql.updated)
         after == IF fails THEN sql.updated
                  ELSE Checkpoint(sql.continual, rows, sql.t0, sql.updated)
     IN  /\ sql' = [sql EXCEPT !.pc = "idle", !.t0 = 0, !.updated = after]
         /\ last' = [op |-> "SQLCheck", raised |-> fails,
                     content |-> IF fails THEN {} ELSE rows,
                     rows |-> rows, before |-> sql.updated, t0 |-> sql.t0,
                     at |-> now, continual |-> sql.continual]
  /\ UNCHANGED <<now, dbrows, svars, fsvars, cvars, dvars, rvars>>

NextSQL ==
  \/ SQLTick
  \/ \E ts \in Stamps : SQLInsert(ts)
  \/ SQLCheckBegin
  \/ \E fails \in BOOLEAN : SQLCheck(fails)

SpecSQL == InitSQL /\ [][NextSQL]_vars

\* =============================================================== SpecRow
\* One definition that stays active with one driver kind, through any number
\* of passes and checks.  Its construction may raise at one pass and succeed
\* at another (the parameters in the table are edited, the tracked path is
\* unreadable for a while).  `checked` is history: the checkpoint the last
\* check() left; `skipped` is history: a pass has skipped the row since.
MaxRow == 4

\* the service (Init with the other parts idle) before its first pass
InitRow ==
  /\ now = 0
  /\ ServiceInit
  /\ FSIdle
  /\ CronIdle
  /\ SendIdle
  /\ SQLIdle
  /\ \E k \in Kinds :
       entry = [kind |-> k, valid |-> TRUE, inst |-> NoListener, checked |-> NoCheck,
              skipped |-> FALSE]
  /\ last = [op |-> "InitRow"]

\* time passes
RowTick ==
  /\ now < MaxRow
  /\ now' = now + 1
  /\ last' = [op |-> "RowTick"]
  /\ UNCHANGED <<entry, svars, fsvars, cvars, dvars, qvars>>

\* the construction of the row's listener starts or stops raising
RowSetValid(v) ==
  /\ v # entry.valid
  /\ entry' = [entry EXCEPT !.valid = v]
  /\ last' = [op |-> "RowSetValid"]
  /\ UNCHANGED <<now, svars, fsvars, cvars, dvars, qvars>>

\* service.py 676-703 for the entry: the map is cleared; a construction that
\* raises skips the entry, a new instance inherits from a previous one of its
\* class, and is stored
RowPass ==
  LET new == Construct(entry.kind, now)
      inst == IF ~entry.valid THEN NoListener
              ELSE IF entry.inst.kind = entry.kind THEN Inherit(new, entry.inst)
              ELSE new
  IN  /\ entry' = [entry EXCEPT !.inst = inst,
                            !.skipped = IF entry.valid THEN @ ELSE TRUE]
      /\ last' = [op |-> "RowPass", built |-> entry.valid, had |-> entry.inst.kind # "none"]
      /\ UNCHANGED <<now, svars, fsvars, cvars, dvars, qvars>>

\* service.py 718-741 for the entry: a check of the live instance
RowCheck(out) ==
  /\ entry.inst.kind # "none"
  /\ LET nt == NextT(entry.inst.cur, ListenerPeriod, now)
         inst == [entry.inst EXCEPT !.updated = UpdatedAfter(entry.inst, out, now),
                                  !.cur = nt.cur]
     IN  /\ entry' = [entry EXCEPT !.inst = inst, !.checked = inst.updated, !.skipped = FALSE]
         /\ last' = [op |-> "RowCheck", outcome |-> out]
  /\ UNCHANGED <<now, svars, fsvars, cvars, dvars, qvars>>

NextRow ==
  \/ RowTick
  \/ \E v \in BOOLEAN : RowSetValid(v)
  \/ RowPass
  \/ \E out \in Outcomes : RowCheck(out)

SpecRow == InitRow /\ [][NextRow]_vars

\* ============================================================== SpecSend
\* One dispatch: the tasks __check_listener (or _onerror) creates, one
\* __send_messages per recipient, under the clock of the event loop.  A
\* message is a sequence of characters; LENGTH and the lifetime are scaled
\* down (4096 characters to 2, 30 s to 2 units of the retry interval's 15 s:
\* lifetime = 2 * retryInterval as in defaults.py).
LENGTH == 2
Lifetime == 2
MaxLen == 3

Recipients == {1, 2}

\* the messages a caller passes, one of each length: none is empty (a
\* listener's message carries its label or its timestamp, the notices of
\* _onerror are constants); the characters of a message are all different,
\* so that a part tells where it was cut from
Text == <<"a", "b", "c", "d", "e", "f">>
Messages == {SubSeq(Text, 1, n) : n \in 1..MaxLen}
MessageTuples == UNION {[1..k -> Messages] : k \in {1, 2}}

\* how long an awaited bot.send_message takes before it returns or raises
SendTimes == {0, 1}

\* an instant by which every task of the dispatch is over
SendHorizon == 2 * ((MaxLen + LENGTH - 1) \div LENGTH) * (Lifetime + RetryInterval + 2)

\* mutant: the bounds step over one character more than a part holds
BoundsWide(m) == {b \in 0..(Len(m) - 1) : b % (LENGTH + 1) = 0}

\* range(0, len(message), LENGTH)
Bounds(m) == {b \in 0..(Len(m) - 1) : b % LENGTH = 0}

\* message[bound:bound + LENGTH]
Part(m, b) == SubSeq(m, b + 1, IF b + LENGTH < Len(m) THEN b + LENGTH ELSE Len(m))

\* mutant: the lifetime is allowed one retry interval more
WithinBudgetLate(started_, t) == t - started_ <= Lifetime + RetryInterval

\* the condition of the while loop (service.py 642)
WithinBudget(started_, t) == t - started_ <= Lifetime

\* a task that was created and has not run yet.  n and prev count and date
\* the attempts of the segment at hand; parts and fin are history: the parts
\* of the message at hand whose attempts began, and how many of them are over
NewSender ==
  [pc |-> "new", mi |-> 0, bound |-> 0, started |-> 0, at |-> 0, ok |-> FALSE,
   n |-> 0, prev |-> 0, parts |-> <<>>, fin |-> 0]

\* the task's position at the next segment, or at its end: the inner for
\* goes on with the next bound, the outer for with the next message
NextSegment(x, t) ==
  LET m == send.msgs[x.mi]
      more == \E b \in Bounds(m) : b > x.bound
      nb == CHOOSE b \in Bounds(m) : b > x.bound /\ \A c \in Bounds(m) : c > x.bound => b <= c
      y == [x EXCEPT !.started = t, !.n = 0, !.prev = 0, !.at = 0, !.ok = FALSE]
  IN  IF more
        THEN [y EXCEPT !.pc = "loop", !.bound = nb, !.fin = x.fin + 1]
      ELSE IF x.mi < Len(send.msgs)
        THEN [y EXCEPT !.pc = "loop", !.mi = x.mi + 1, !.bound = 0, !.parts = <<>>, !.fin = 0]
      ELSE [y EXCEPT !.pc = "done", !.started = 0, !.bound = 0, !.parts = <<>>, !.fin = 0]

\* mutant: the deliveries run one after the other, in the order of the chats
RunnableInTurn(r) == \A q \in DOMAIN send.s : q < r => send.s[q].pc = "done"

\* service.py 746-749 (570, 576): every delivery is a task of its own
Runnable(r) == TRUE

\* the task can take a step now: it is not suspended in a send or a sleep
Ready(r) ==
  /\ r \in DOMAIN send.s
  /\ Runnable(r)
  /\ \/ send.s[r].pc \in {"new", "loop"}
     \/ send.s[r].pc \in {"send", "sleep"} /\ send.s[r].at <= now

\* the dispatch: the messages of one check and a task per subscriber
InitSend ==
  /\ now = 0
  /\ ServiceInit
  /\ FSIdle
  /\ CronIdle
  /\ SQLIdle
  /\ RowIdle
  /\ \E msgs \in MessageTuples, to \in SUBSET Recipients :
       /\ to # {}
       /\ send = [msgs |-> msgs, s |-> [r \in to |-> NewSender],
                  wait |-> [pc |-> "waiting", timeout |-> FALSE]]
  /\ last = [op |-> "InitSend"]

SendStep(r, x, op) ==
  /\ send' = [send EXCEPT !.s[r] = x]
  /\ last' = op
  /\ UNCHANGED <<now, svars, fsvars, cvars, qvars, rvars>>

\* the tasks that are not over
Pending == {r \in DOMAIN send.s : send.s[r].pc # "done"}

\* mutant: the wait behaves as asyncio.wait_for: on a timeout the pending
\* tasks are cancelled and TimeoutError is raised
WaitResultFor(pending) == [raised |-> pending # {}, cancel |-> pending]

\* service.py 749: asyncio.wait(tasks, timeout=common) returns the done and
\* the pending tasks; it neither raises on a timeout nor cancels a task
WaitResult(pending) == [raised |-> FALSE, cancel |-> {}]

\* the caller of the dispatch can go on: every task is over or the common
\* timeout, counted from the dispatch at 0, has elapsed
WaitReady ==
  /\ send.wait.pc = "waiting"
  /\ Pending = {} \/ now >= CommonTimeout

\* asyncio.wait returns and __check_listener ends
WaitReturns ==
  LET res == WaitResult(Pending)
  IN  /\ WaitReady
      /\ send' = [send EXCEPT
                    !.wait = [pc |-> "returned", timeout |-> Pending # {}],
                    !.s = [r \in DOMAIN send.s |->
                             IF r \in res.cancel THEN [send.s[r] EXCEPT !.pc = "cancelled"]
                             ELSE send.s[r]]]
      /\ last' = [op |-> "WaitReturns", timeout |-> Pending # {}, raised |-> res.raised,
                  pending |-> Pending, before |-> send.s]
      /\ UNCHANGED <<now, svars, fsvars, cvars, qvars, rvars>>

\* the event loop idles until the next timer: time passes only when no task
\* can take a step
SendTick ==
  /\ now < SendHorizon
  /\ ~WaitReady
  /\ \A r \in Recipients : ~Ready(r)
  /\ \E r \in DOMAIN send.s : send.s[r].pc # "done"
  /\ now' = now + 1
  /\ last' = [op |-> "SendTick"]
  /\ UNCHANGED <<send, svars, fsvars, cvars, qvars, rvars>>

\* the task starts: the first message, the first bound, started = monotonic()
SendBegin(r) ==
  /\ Ready(r)
  /\ send.s[r].pc = "new"
  /\ SendStep(r, [send.s[r] EXCEPT !.pc = "loop", !.mi = 1, !.bound = 0, !.started = now],
              [op |-> "SendBegin", to |-> r])

\* the while condition: within the lifetime the part is sent (the call
\* returns or raises after d), past it the else clause logs the error and
\* the for loop goes on
SendLoop(r, ok, d) ==
  LET x == send.s[r]
      m == send.msgs[x.mi]
  IN  /\ Ready(r)
      /\ x.pc = "loop"
      /\ IF WithinBudget(x.started, now)
           THEN SendStep(r, [x EXCEPT !.pc = "send", !.at = now + d, !.ok = ok,
                                      !.n = x.n + 1, !.prev = now,
                                      !.parts = IF x.n = 0 THEN Append(x.parts, Part(m, x.bound))
                                                ELSE x.parts],
                         [op |-> "Attempt", to |-> r, part |-> Part(m, x.bound),
                          started |-> x.started, n |-> x.n + 1, prev |-> x.prev,
                          begun |-> Len(x.parts) + (IF x.n = 0 THEN 1 ELSE 0), fin |-> x.fin])
           ELSE /\ ok /\ d = 0
                /\ SendStep(r, NextSegment(x, now),
                            [op |-> "GiveUp", to |-> r, started |-> x.started, n |-> x.n,
                             msg |-> m, parts |-> x.parts,
                             last |-> \A b \in Bounds(m) : b <= x.bound,
                             next |-> NextSegment(x, now).pc])

\* bot.send_message returns (break) or raises (the sleep starts)
SendReturns(r) ==
  LET x == send.s[r]
      m == send.msgs[x.mi]
  IN  /\ Ready(r)
      /\ x.pc = "send"
      /\ IF x.ok
           THEN SendStep(r, NextSegment(x, now),
                         [op |-> "Sent", to |-> r, started |-> x.started, n |-> x.n,
                          msg |-> m, parts |-> x.parts,
                          last |-> \A b \in Bounds(m) : b <= x.bound,
                          next |-> NextSegment(x, now).pc])
           ELSE SendStep(r, [x EXCEPT !.pc = "sleep", !.at = now + RetryInterval],
                         [op |-> "Failed", to |-> r])

\* asyncio.sleep(retryInterval) returns
SendWake(r) ==
  /\ Ready(r)
  /\ send.s[r].pc = "sleep"
  /\ SendStep(r, [send.s[r] EXCEPT !.pc = "loop"], [op |-> "Wake", to |-> r])

NextSend ==
  \/ SendTick
  \/ WaitReturns
  \/ \E r \in Recipients : SendBegin(r)
  \/ \E r \in Recipients, ok \in BOOLEAN, d \in SendTimes : SendLoop(r, ok, d)
  \/ \E r \in Recipients : SendReturns(r)
  \/ \E r \in Recipients : SendWake(r)

SpecSend == InitSend /\ [][NextSend]_vars

\* ------------------------------------------------------------- SpecRetry
\* One delivery task on its own, with the clock and the task never stopping
\* for good: the event loop runs a task that is ready and the timers expire.
InitRetry ==
  /\ InitSend
  /\ Cardinality(DOMAIN send.s) = 1

SpecRetry == InitRetry /\ [][NextSend]_vars /\ WF_vars(NextSend)


\* ================================================================ claims
\* the number of pending jobs named LISTENER of listener i
ListenerJobs(q, i) ==
  LET S == {j \in BagToSet(q) : j.name = LISTENER /\ j.lid = i}
  IN  BagCardinality([j \in S |-> q[j]])

ActualizerJobs(q) ==
  LET S == GetJobsByName(q, ACTUALIZER)
  IN  BagCardinality([j \in S |-> q[j]])

IsPass == last.op \in {"PassOk", "PassFail"}

\* C1: in every reachable state the queue holds at most one pending job named
\* LISTENER for each listener identifier.
C1_OneListenerJob == \A i \in Ids : ListenerJobs(jobs, i) <= 1

\* C1 witness: after an administrative intervention, a listener-check callback
\* has run and rescheduled its listener's job.
C1_Witness ==
  /\ last.op = "CheckListener"
  /\ last.name = LISTENER
  /\ last.outcome # "assert"
  /\ budget < MaxOps
  /\ ListenerJobs(jobs, last.lid) = 1

\* C2 (the claim as stated): when the callback of a job named LISTENER of a
\* live listener has run check(), whatever the outcome, a job named LISTENER
\* of that listener is pending at the occurrence next_t returned.
C2_Rescheduled ==
  (last.op = "CheckListener" /\ last.name = LISTENER /\ last.outcome # "assert")
    => \E j \in BagToSet(jobs) :
         j.name = LISTENER /\ j.lid = last.lid /\ j.when = last.when

\* C3: every pass ends with an actualizer job pending, and from the first pass
\* until the shutdown job has run, an actualizer job is pending or its
\* callback (a pass) is about to run.
C3_ActualizerPending ==
  /\ IsPass => ActualizerJobs(jobs) >= 1
  /\ (started /\ alive) => (ActualizerJobs(jobs) >= 1 \/ ActualizerJobs(tasks) >= 1)

\* C3 witness: a pass whose read raised has ended, and an actualizer job is pending.
C3_Witness == last.op = "PassFail" /\ last.trig = "job" /\ ActualizerJobs(jobs) = 1

\* C4 (the claim as stated): after a pass whose read raised, whatever started
\* it, the actualizer job is due one retry interval after the failure; after
\* a pass whose read succeeded there is exactly one job named LISTENER per
\* active row read.
C4_Original ==
  /\ last.op = "PassFail" =>
       \A j \in GetJobsByName(jobs, ACTUALIZER) : j.when = now + RetryInterval
  /\ last.op = "PassOk" =>
       \A i \in Ids : ListenerJobs(jobs, i) = (IF i \in last.rows THEN 1 ELSE 0)

\* C4 (amended): a pass whose read raised and that found no actualizer job
\* pending leaves exactly one, due one retry interval after the failure; one
\* that found an actualizer job pending (the actualize command) leaves the
\* queue as it was; after a pass whose read succeeded there is exactly one
\* job named LISTENER per active row whose listener was constructed.
C4_Amended ==
  /\ (last.op = "PassFail" /\ ~last.hadJob) =>
       /\ ActualizerJobs(jobs) = 1
       /\ \A j \in GetJobsByName(jobs, ACTUALIZER) : j.when = now + RetryInterval
  /\ (last.op = "PassFail" /\ last.hadJob) => jobs = last.qbefore
  /\ last.op = "PassOk" =>
       \A i \in Ids :
         ListenerJobs(jobs, i) = (IF defs[i].active /\ defs[i].valid THEN 1 ELSE 0)

\* C4 witness: the pass run by a retry job (an actualizer job due before the
\* first cron occurrence) has read the table and left a job for a listener.
C4_Witness ==
  /\ last.op = "PassOk"
  /\ last.trig = "job"
  /\ now < ActualizerPeriod
  /\ \E i \in Ids : ListenerJobs(jobs, i) = 1

\* C5: after a pass whose read succeeded, the live listeners are exactly the
\* active rows whose listener was constructed, and the pending jobs named
\* LISTENER are exactly one per live listener.
C5_MapMatchesRows ==
  last.op = "PassOk" =>
    /\ Live(listeners) = {i \in Ids : defs[i].active /\ defs[i].valid}
    /\ \A i \in Ids : ListenerJobs(jobs, i) = (IF i \in Live(listeners) THEN 1 ELSE 0)
    /\ \A i \in Live(listeners) : listeners[i].kind = defs[i].kind

\* C5 witness: a pass has dropped a listener that was live and kept another.
C5_Witness ==
  /\ last.op = "PassOk"
  /\ Live(last.before) \ Live(listeners) # {}
  /\ Live(listeners) # {}

\* C6 (the claim as stated): a listener that was live before a pass and is not
\* among the active rows has no pending job named LISTENER after the pass and
\* close() was called on it.
C6_RetiredClosed ==
  last.op = "PassOk" =>
    \A i \in last.retired : ListenerJobs(jobs, i) = 0 /\ i \in last.closed

\* C10 (the claim as stated): a pass that rebuilds a listener whose previous
\* instance is of another class schedules exactly one immediate CHECKER job
\* for it, and the check that job runs is a check of the previous instance.
C10_FlushChecksOld ==
  /\ last.op = "PassOk" =>
       \A i \in last.flushed :
         \E j \in BagToSet(jobs) :
           /\ j.name = CHECKER /\ j.lid = i /\ j.when = now /\ j.chat = NoChat
           /\ j.old = last.before[i].kind
  /\ (last.op = "CheckListener" /\ last.name = CHECKER /\ last.outcome # "assert"
        /\ last.old # "none") => last.kind = last.old

ForceJobs(q, i, c) ==
  LET S == {j \in BagToSet(q) : j.name = CHECKER /\ j.lid = i /\ j.chat = c /\ j.when = now}
  IN  BagCardinality([j \in S |-> q[j]])

\* C22: a force-check schedules one one-shot job for each live listener that
\* is requested, every live listener when none is requested, and nothing
\* else.
C22_ForceSchedulesRequested ==
  (last.op \in {"ForceCheck", "ForceDone"} /\ last.request) =>
    /\ \A i \in Ids :
         ForceJobs(last.added, i, last.chat) =
           (IF i \in last.live /\ (last.ids = {} \/ i \in last.ids) THEN 1 ELSE 0)
    /\ BagCardinality(last.added) =
         Cardinality({i \in last.live : last.ids = {} \/ i \in last.ids})

\* a request for one of two live listeners
C22_Witness ==
  /\ last.op = "ForceCheck"
  /\ last.request
  /\ last.live = Ids
  /\ Cardinality(last.ids) = 1
  /\ BagCardinality(last.added) = 1

\* C23 (the claim as stated): the check command reports completion only when
\* no one-shot job is pending; when its wait budget is used up it does not
\* report completion, the calling chat is told of the failure, and the
\* process goes on.
C23_TimeoutReported ==
  /\ last.op = "ForceDone" => (~CheckerPending(jobs) /\ last.told = {last.chat})
  /\ last.op = "ForceTimeout" => (alive /\ last.told = {last.chat})

\* C24: for every listener at most one check() is in flight, no pass runs
\* while a check() is in flight, and a check() finds, when it writes the
\* checkpoint, the checkpoint it read: no other check() or pass has written
\* it in between.
C24_ChecksSequential ==
  /\ \A i \in Ids : Cardinality({r \in running : r.t.lid = i}) <= 1
  /\ IsPass => running = {}
  /\ (last.op = "CheckListener" /\ last.outcome # "assert") => last.read = last.seen

\* a check() of a listener is in flight while another callback for the same
\* listener has been spawned and waits for the loop
C24_Witness ==
  /\ last.op = "CheckStart"
  /\ \E r \in running : r.t.lid = last.lid
  /\ \E t \in BagToSet(tasks) : t.name \in {LISTENER, CHECKER} /\ t.lid = last.lid

\* C14: a check that returns messages is delivered to exactly the chats
\* whose subscription to the listener is active and whose chat record is
\* active; a check that returns no message resolves no subscriber and
\* delivers nothing.
C14_DeliveredToActiveSubscribers ==
  last.op = "CheckListener" =>
    /\ last.outcome = "msgs" =>
         last.sent = {c \in ChatIds :
                        /\ ChatTable[c].active
                        /\ [chat |-> c, lid |-> last.lid, active |-> TRUE] \in SubscriptionTable}
    /\ last.outcome = "none" => (~last.resolved /\ last.sent = {})

\* a delivery that leaves out a chat with an inactive subscription and a
\* chat whose record is inactive
C14_Witness ==
  /\ last.op = "CheckListener"
  /\ last.outcome = "msgs"
  /\ Cardinality(last.sent) >= 2
  /\ \E c \in ChatIds \ last.sent :
       [chat |-> c, lid |-> last.lid, active |-> FALSE] \in SubscriptionTable
  /\ \E c \in ChatIds \ last.sent :
       /\ [chat |-> c, lid |-> last.lid, active |-> TRUE] \in SubscriptionTable
       /\ ~ChatTable[c].active

\* C15 (the claim as stated): a message is delivered only for a listener
\* whose definition is active in the table at that moment.
C15_Original ==
  (last.op = "CheckListener" /\ last.sent # {}) => defs[last.lid].active

\* C15 (amended): a message is delivered only for a listener whose
\* definition was active when the latest successful pass read the table; a
\* deactivation takes effect with the next successful pass.
C15_Amended ==
  (last.op = "CheckListener" /\ last.sent # {}) => last.lid \in passrows

\* a delivery for a definition that was deactivated after the latest pass
C15_Witness ==
  /\ last.op = "CheckListener"
  /\ last.sent # {}
  /\ ~defs[last.lid].active
  /\ last.lid \in passrows

\* the run was a force-check started from a chat
FromChat == last.name = CHECKER /\ last.chat # NoChat

\* C16 (the claim as stated): a check() that raises is reported as a
\* check-failure error carrying the listener and the triggering chat, and
\* the notice goes to every developer (every active private chat with the
\* DEVELOPER role) and, exactly when the run was a force-check started from a
\* chat, to that chat as well.
C16_CheckFailureNotified ==
  (last.op = "CheckListener" /\ last.outcome = "raise") =>
    /\ last.error = <<last.lid, last.chat>>
    /\ last.notified = Developers \cup (IF FromChat THEN {last.chat} ELSE {})

\* C17 (the claim as stated): a failed read of the configuration leaves the
\* process running and its notice goes to every developer, the first pass
\* at start-up included.
C17_ReadFailureEscalated ==
  last.op = "PassFail" => (alive /\ last.notified = Developers)

\* ------------------------------------------------ claims on SpecSQL
\* C25: a successful check() of a continual SQL listener leaves the
\* checkpoint at the greatest timestamp of the rows the query returned, or
\* where it was when the query returned none; a successful check() of a
\* listener that is not continual leaves it at the wall clock taken when the
\* check began.
C25_SQLCheckpoint ==
  (last.op = "SQLCheck" /\ ~last.raised) =>
     IF last.continual
       THEN /\ last.rows # {} => sql.updated = MaxOf(last.rows)
            /\ last.rows = {} => sql.updated = last.before
       ELSE sql.updated = last.t0

\* checkpoint T, two rows newer than T, the later one neither at the instant
\* the check began nor at the instant it ended
C25_Witness ==
  /\ last.op = "SQLCheck" /\ ~last.raised /\ last.continual
  /\ Cardinality(last.rows) = 2
  /\ \A r \in last.rows : r > last.before
  /\ MaxOf(last.rows) \notin {last.t0, last.at}
  /\ last.t0 # last.at
  /\ sql.updated = MaxOf(last.rows)

\* the step just taken was a failure: a pass whose read raised, a check()
\* or a subscriber lookup that raised, a callback that found no listener, a
\* check command that ran out of time
Failed ==
  \/ last.op = "PassFail"
  \/ last.op = "CheckListener" /\ last.outcome \in {"assert", "raise", "dbfail"}
  \/ last.op = "ForceTimeout"

\* C28: the process ends only in the step of the _onclose job, and such a
\* job enters the queue only in the step of a confirmed shutdown command; a
\* step that failed leaves the process running and leaves an actualizer job
\* pending if one was pending.
C28_OnlyShutdownTerminates ==
  [][ /\ (alive /\ ~alive') =>
           (last'.op = "OnClose" /\ \E t \in BagToSet(tasks) : t.name = ONCLOSE)
      /\ (GetJobsByName(jobs', ONCLOSE) \ GetJobsByName(jobs, ONCLOSE) # {}) =>
           last'.op = "ShutdownConfirm"
      /\ Failed' =>
           /\ alive'
           /\ GetJobsByName(jobs, ACTUALIZER) # {} => GetJobsByName(jobs', ACTUALIZER) # {}
    ]_vars

\* a pass fails on command while the actualizer job waits in the queue, and
\* the job is still there
C28_Witness ==
  /\ last.op = "PassFail" /\ last.trig = "manual" /\ last.hadJob
  /\ alive
  /\ GetJobsByName(jobs, ACTUALIZER) # {}

\* C33 (the claim as stated): whenever the callback of a job named LISTENER
\* or CHECKER starts, the listener its payload names is in the live map: the
\* assertion on the lookup never fails.
C33_ListenerKnown ==
  last.op = "CheckListener" => last.outcome # "assert"

\* C34: a pass whose read raised leaves the live map as it was and every job
\* that was pending still pending; what it adds to the queue is at most one
\* job, named ACTUALIZER.
C34_FailedPassFrame ==
  last.op = "PassFail" =>
    /\ listeners = last.before
    /\ last.qbefore \sqsubseteq jobs
    /\ BagCardinality(jobs (-) last.qbefore) <= 1
    /\ \A j \in BagToSet(jobs (-) last.qbefore) : j.name = ACTUALIZER

\* the actualizer's own pass fails with live listeners, a job named LISTENER
\* and a job of the check command pending; the actualizer job is added
C34_Witness ==
  /\ last.op = "PassFail" /\ ~last.hadJob
  /\ Live(listeners) # {}
  /\ GetJobsByName(jobs, LISTENER) # {}
  /\ \E j \in GetJobsByName(jobs, CHECKER) : j.chat # NoChat
  /\ GetJobsByName(jobs, ACTUALIZER) # {}

\* C35 (the claim as stated): when check() has returned messages, and with
\* that has moved the checkpoint past them, a delivery is dispatched to every
\* active subscriber of the listener, whatever the lookup of the subscribers
\* did.
C35_MessagesAttempted ==
  (last.op = "CheckListener" /\ last.outcome \in {"msgs", "dbfail"}) =>
    /\ listeners[last.lid].updated = now
    /\ last.sent = Subscribers(last.lid, TRUE)

\* C32: while a pass is between its clearing of the jobs and the map and the
\* end of its loop over the rows nothing else runs: the only state in which
\* a pass is under way is the one its clearing step has just produced, and no
\* step of a check callback starts or ends in such a state.
C32_PassAtomic ==
  /\ passing.on => last.op = "PassClear"
  /\ last.op \in {"CheckStart", "CheckListener", "Fire"} => ~passing.on

\* a pass has cleared the map of a live listener while a fired check callback
\* waits for the event loop
C32_Witness ==
  /\ passing.on
  /\ Live(passing.old) # {}
  /\ \E t \in BagToSet(tasks) : t.name \in {LISTENER, CHECKER}

\* the pending jobs of one name, as a bag
JobsNamed(q, name) == [j \in GetJobsByName(q, name) |-> q[j]]

\* the jobs named LISTENER the pass just ended has scheduled
ScheduledByPass == IF last.op = "PassOk" THEN last.scheduled ELSE {}

\* C30 (the claim as stated): after a pass, whatever the outcome of its read,
\* no job named LISTENER that was pending before it is left (the jobs named
\* LISTENER are those the pass itself scheduled), and every one-shot job
\* named CHECKER that was pending before it is still pending.
C30_Original ==
  IsPass =>
    /\ JobsNamed(jobs, LISTENER) = SetToBag(ScheduledByPass)
    /\ JobsNamed(last.qbefore, CHECKER) \sqsubseteq JobsNamed(jobs, CHECKER)

\* C30 (amended): after a pass whose read succeeded the jobs named LISTENER
\* are those the pass itself scheduled and every job named CHECKER pending
\* before it is still pending; a pass whose read raised leaves the jobs of
\* both names as they were.
C30_Amended ==
  /\ last.op = "PassOk" =>
       /\ JobsNamed(jobs, LISTENER) = SetToBag(last.scheduled)
       /\ JobsNamed(last.qbefore, CHECKER) \sqsubseteq JobsNamed(jobs, CHECKER)
  /\ last.op = "PassFail" =>
       /\ JobsNamed(jobs, LISTENER) = JobsNamed(last.qbefore, LISTENER)
       /\ JobsNamed(jobs, CHECKER) = JobsNamed(last.qbefore, CHECKER)

\* a pass has read the table while a job of the check command and a job named
\* LISTENER were pending; the first is still pending
C30_Witness ==
  /\ last.op = "PassOk"
  /\ \E j \in GetJobsByName(last.qbefore, CHECKER) : j.chat # NoChat /\ j \in BagToSet(jobs)
  /\ GetJobsByName(last.qbefore, LISTENER) # {}

\* ------------------------------------------------- claims on SpecFS
\* the stored state of an item, a missing key reading as None
Lookup(st, p) == IF st[p].t = "nokey" THEN NoneV ELSE st[p]

\* what happened to the tracked items between the file systems s and w
TrackedIn(mask, w) == {p \in FilesystemItems(mask, w) : Exists(w, p)}
CreatedSince(mask, s, w) == TrackedIn(mask, w) \ TrackedIn(mask, s)
RemovedSince(mask, s, w) == TrackedIn(mask, s) \ TrackedIn(mask, w)
ModifiedSince(mask, s, w) ==
  {p \in TrackedIn(mask, w) \cap TrackedIn(mask, s) :
     \/ IsFile(s, p) /\ IsFile(w, p) /\ Mtime(s, p) # Mtime(w, p)
     \/ IsDir(s, p) /\ IsDir(w, p) /\ FolderContent(s, p) # FolderContent(w, p)}

ChangedSince(mask, s, w) ==
  CreatedSince(mask, s, w) \cup RemovedSince(mask, s, w) \cup ModifiedSince(mask, s, w)

\* the items the messages are about
Reported(msgs) == {m.item : m \in msgs}

\* C7 (the claim as stated): a check() that raised leaves the checkpoint, the
\* last-update timestamp and the stored state of every item, as it was
\* before the call.
C7_RaisedCheckKeepsCheckpoint ==
  (last.op = "FSCheck" /\ last.raised) => fsl = last.before

\* C8 (the claim as stated): after a rebuild with the same class the new
\* instance's checkpoint equals the previous instance's: the same last-update
\* timestamp and, for every item either of them tracks, the same stored state.
C8_InheritedCheckpoint ==
  last.op = "FSSwap" =>
    /\ fsl.updated = last.before.updated
    /\ \A p \in Keys(fsl.state) \cup Keys(last.before.state) :
         Lookup(fsl.state, p) = Lookup(last.before.state, p)

\* C9 (the claim as stated, for the files a mask selects under a directory):
\* the first check() of an instance that replaced its predecessor has a
\* message for exactly the items created, removed or modified since the
\* predecessor's last successful check: none is missed, none is reported
\* that did not change.
C9_SwapIsTransparent ==
  (/\ last.op = "FSCheck" /\ last.first /\ ~last.raised
   /\ fsl.mask /\ last.snap.root = "dir" /\ world.root = "dir") =>
    Reported(last.msgs) = ChangedSince(fsl.mask, last.snap, world)

\* C12 (the claim as stated): a check() that directly follows a check() that
\* returned, with no change of the file system in between and no error of
\* the file system during it, returns no message and does not raise.
C12_SecondCheckQuiet ==
  (last.op = "FSCheck" /\ last.again /\ last.ioerr = NoItem) =>
    (~last.raised /\ last.msgs = {})

\* the two messages the claims below expect
FileModifiedMsg == [t |-> "File modified", item |-> ROOT, added |-> 0, removed |-> 0]
FolderOneEachMsg == [t |-> "Folder", item |-> ROOT, added |-> 1, removed |-> 1]

\* C26: a listener that tracks a file, whose file was written after the
\* checkpoint and is still a file, returns from its next check() exactly one
\* message, "File modified" for the tracked path; the check() that directly
\* follows, with nothing changed in between, returns none.
C26_FileModifiedOnce ==
  /\ (/\ last.op = "FSCheck" /\ last.ioerr = NoItem
      /\ Keys(last.before.state) = {ROOT} /\ last.before.state[ROOT].t = "time"
      /\ last.snap.root = "file" /\ world.root = "file"
      /\ world.rm > last.before.updated) =>
       (~last.raised /\ last.msgs = {FileModifiedMsg})
  /\ (/\ last.op = "FSCheck" /\ last.again /\ last.ioerr = NoItem
      /\ last.prev = {FileModifiedMsg}) =>
       (~last.raised /\ last.msgs = {})

\* the second of the two checks: the one before it reported the file
C26_Witness ==
  /\ last.op = "FSCheck" /\ last.again /\ ~last.raised
  /\ last.prev = {FileModifiedMsg}
  /\ last.msgs = {}
  /\ world.root = "file" /\ world.rm > 0

\* C27: a listener that tracks a directory as a single folder, where one
\* file that was there at the previous check is gone and one file that was
\* not there has appeared, returns from its check() exactly one message, for
\* the directory, that counts one added and one removed file.
C27_FolderDiff ==
  (/\ last.op = "FSCheck" /\ last.ioerr = NoItem
   /\ ~last.before.mask /\ last.before.state[ROOT].t = "set" /\ world.root = "dir"
   /\ Cardinality(world.ex \ last.before.state[ROOT].c) = 1
   /\ Cardinality(last.before.state[ROOT].c \ world.ex) = 1) =>
    (~last.raised /\ last.msgs = {FolderOneEachMsg})

\* the second check of a folder that held one file at the first
C27_Witness ==
  /\ last.op = "FSCheck" /\ ~last.raised /\ ~last.before.mask
  /\ last.snap.root = "dir" /\ Cardinality(last.snap.ex) = 1
  /\ world.root = "dir" /\ Cardinality(world.ex) = 1 /\ world.ex # last.snap.ex
  /\ last.before.state[ROOT] = SetV(last.snap.ex)
  /\ last.msgs = {FolderOneEachMsg}

\* ---------------------------------------------------- claims on SpecCron
\* C13 (the claim as stated): the occurrence returned by next_t is never
\* earlier than the instant of the call, however many occurrences have
\* elapsed since the stored one.
C13_NextTInFuture ==
  last.op = "NextT" => last.when >= now

\* C31 (the claim as stated): a read of next_t while the stored occurrence
\* lies ahead reports expired = false, returns the stored occurrence and
\* leaves the schedule as it was; a read that directly follows another read,
\* at the same instant, returns the occurrence the first one returned.
C31_ReadIsStable ==
  /\ (last.op = "NextT" /\ last.stored > now) =>
       (~last.expired /\ last.when = last.stored /\ sched.cur = last.stored)
  /\ (last.op = "NextT" /\ last.again) => last.when = last.prev

\* C29 (the claim as stated): when the configured timezone string names no
\* timezone the service is constructed, its cron schedules use UTC and one
\* warning is recorded; when it names a timezone the schedules use that
\* timezone and no warning is recorded.
C29_TimezoneFallback ==
  IF ValidTimezone(conf.configured)
    THEN conf.tz = conf.configured /\ conf.warnings = 0
    ELSE conf.tz = UTC /\ conf.warnings = 1

\* an escalation has just been sent by _onerror: a read of the configuration
\* raised (case DBAPIError) or a check failed (case ListenerCheckError)
EscalationSent ==
  \/ last.op = "PassFail"
  \/ last.op = "CheckListener" /\ last.outcome \in {"raise", "dbfail"}

\* C38 (the claim as stated): whenever an escalation is sent, the developer
\* audience it goes to is the set of active private chats with the DEVELOPER
\* role, and it is not empty when such a chat exists, also when the first
\* pass at start-up failed.
C38_DeveloperAudience ==
  EscalationSent =>
    /\ developers = Developers
    /\ Developers # {} => developers # {}

\* C37: the callback of a job named CHECKER in which check() ran, returning
\* or raising, leaves the pending jobs named LISTENER as they were: none is
\* added, none removed, none moved to another time.
C37_ForceCheckFrame ==
  [][(last'.op = "CheckListener" /\ last'.name = CHECKER /\ last'.outcome # "assert") =>
       JobsNamed(jobs', LISTENER) = JobsNamed(jobs, LISTENER)]_vars

\* a CHECKER callback whose check() raised has ended while no job named
\* LISTENER was pending, and none is pending now
C37_Witness ==
  /\ last.op = "CheckListener"
  /\ last.name = CHECKER
  /\ last.outcome = "raise"
  /\ last.others = {}
  /\ GetJobsByName(jobs, LISTENER) = {}

\* C39: in every reachable state at most one job named ACTUALIZER is
\* pending, whatever the interleaving of scheduled passes, passes run by the
\* actualize command and passes whose read raised.
C39_OneActualizerJob == ActualizerJobs(jobs) <= 1

\* a pass run by the actualize command, its read raising, has ended while the
\* actualizer job of the schedule was pending, and one such job is pending
C39_Witness ==
  /\ last.op = "PassFail"
  /\ last.trig = "manual"
  /\ last.hadJob
  /\ ActualizerJobs(jobs) = 1

\* ----------------------------------------------------- claims on SpecRow
\* C36 (the claim as stated): after any pass the live instance of a
\* definition that stays active with one driver kind has the checkpoint its
\* last check left, also when a pass in between skipped the row because its
\* construction raised.
C36_CheckpointKept ==
  (last.op = "RowPass" /\ entry.inst.kind # "none" /\ entry.checked # NoCheck) =>
    entry.inst.updated = entry.checked

\* ---------------------------------------------------- claims on SpecSend
RECURSIVE Concat(_)
\* the concatenation of a sequence of parts
Concat(ps) == IF ps = <<>> THEN <<>> ELSE Head(ps) \o Concat(Tail(ps))

\* C18: a task sends each message as parts of at most LENGTH characters that
\* follow one another in the message and together make up the message; the
\* attempts of a part begin only when the part before it is over (sent or
\* given up), and a message of at most LENGTH characters is one part.
C18_SegmentsInOrder ==
  /\ \A r \in DOMAIN send.s :
       LET x == send.s[r]
       IN  x.pc \in {"loop", "send", "sleep"} =>
             /\ Len(x.parts) \in {x.fin, x.fin + 1}
             /\ x.pc \in {"send", "sleep"} => Len(x.parts) = x.fin + 1
             /\ \A k \in 1..Len(x.parts) : Len(x.parts[k]) \in 1..LENGTH
             /\ Concat(x.parts) = SubSeq(send.msgs[x.mi], 1, Len(Concat(x.parts)))
  /\ (last.op \in {"Sent", "GiveUp"} /\ last.last) =>
       /\ Concat(last.parts) = last.msg
       /\ Len(last.msg) <= LENGTH => Len(last.parts) = 1

\* the last part of a message of two parts was sent, to a task that goes on
\* with the next message
C18_Witness ==
  /\ last.op = "Sent"
  /\ last.last
  /\ Len(last.parts) = 2
  /\ Len(last.msg) > LENGTH
  /\ last.next = "loop"

\* C20: the deliveries of a dispatch are tasks of their own: a task starts
\* at the instant of the dispatch and goes on at the instant its send
\* returns or its sleep ends, whatever the other tasks do (fail, sleep, or
\* give up).
C20_Independent ==
  \A r \in DOMAIN send.s :
    LET x == send.s[r]
    IN  /\ x.pc = "new" => now = 0
        /\ x.pc = "loop" => now = (IF x.n = 0 THEN x.started ELSE x.at)
        /\ x.pc \in {"send", "sleep"} => now <= x.at

\* one recipient is through with every message while the sends to the other
\* have all failed and its retry sleeps
C20_Witness ==
  /\ DOMAIN send.s = Recipients
  /\ \E r, q \in Recipients :
       /\ r < q
       /\ send.s[r].pc = "sleep" /\ send.s[r].n >= 2
       /\ send.s[r].mi = 1 /\ send.s[r].fin = 0
       /\ send.s[q].pc = "done"
       /\ last.op = "Sent" /\ last.to = q

\* C21: when the common timeout of a dispatch elapses with deliveries still
\* pending, the wait returns without raising, the pending tasks are left as
\* they are (none is cancelled) and the caller does not wait for them any
\* longer; they go on by themselves.
C21_TimeoutAbandons ==
  /\ (last.op = "WaitReturns" /\ last.timeout) =>
       /\ ~last.raised
       /\ send.s = last.before
       /\ send.wait.pc = "returned"
       /\ now = CommonTimeout
  /\ \A r \in DOMAIN send.s : send.s[r].pc # "cancelled"

\* a part is sent by a task the caller has stopped waiting for
C21_Witness ==
  /\ last.op = "Sent"
  /\ send.wait.pc = "returned"
  /\ send.wait.timeout
  /\ now > CommonTimeout

\* --------------------------------------------------- claims on SpecRetry
\* no attempt begins after the lifetime, counted from the first attempt of
\* the part, has elapsed; a retry begins no sooner than the retry interval
\* after the attempt before; giving up goes on with the next part
RetrySafe ==
  /\ last.op = "Attempt" =>
       /\ now - last.started <= Lifetime
       /\ last.n = 1 => now = last.started
       /\ last.n > 1 => now - last.prev >= RetryInterval
       /\ last.n <= (Lifetime \div RetryInterval) + 1
  /\ last.op = "GiveUp" =>
       /\ now - last.started > Lifetime
       /\ last.next \in {"loop", "done"}
       /\ last.next = "done" => last.last

\* every task of the dispatch is over
SendOver == \A r \in DOMAIN send.s : send.s[r].pc = "done"

\* C19: a failed send is retried after the retry interval while the lifetime
\* of the part, counted from its first attempt, has not elapsed; no attempt
\* begins after it; giving up does not raise and goes on with the next part;
\* the task comes to its end.
C19_RetryWithinBudget == []RetrySafe /\ <>SendOver

\* a part is given up after as many attempts as the lifetime allows, and the
\* task goes on with the next part
C19_Witness ==
  /\ last.op = "GiveUp"
  /\ last.n = (Lifetime \div RetryInterval) + 1
  /\ last.next = "loop"
====
